---- MODULE Spec2Model ----
(***************************************************************************)
(* spikeflow, core/model.py: CompositeLayer._compile (the composition pass *)
(* that wires neuron layers, connections and learning rules into one       *)
(* graph) and BPNNModel (compile, run_time, learn, continue_run_time).     *)
(*                                                                         *)
(* NeuronLayer, ConnectionLayer and LearningRule live in other files of    *)
(* the repository; what the model needs of them (add_input accumulates a   *)
(* signal, _compile defines output, _compile_output_node defines a         *)
(* connection's output) is taken from the written specification.           *)
(***************************************************************************)
EXTENDS Integers, Sequences, FiniteSets, TLC

(* ------------------------------------------------------------------ *)
(* Bounds of the exploration                                          *)
(* ------------------------------------------------------------------ *)
MaxLayers == 2      \* neuron layers registered on the model
MaxConns == 2       \* connections registered on the model
MaxRules == 2       \* learning rules registered on the model
MaxCompiles == 2    \* calls of compile() on the model

(* ------------------------------------------------------------------ *)
(* The objects a caller can build and register                        *)
(* ------------------------------------------------------------------ *)
\* The model ("top") and one nested CompositeLayer ("K").
Composites == {"top", "K"}
\* Neuron layers a caller may register on the model: two primitive layers
\* and the nested composite.
TopLayers == {"A", "B", "K"}
\* Neuron layers a caller may have put inside K.
InnerLayers == {"P", "Q"}
NLayers == TopLayers \cup InnerLayers
\* Connections a caller may register on the model, and inside K.
TopConns == {"ab", "kb", "ak", "ap"}
InnerConns == {"pq"}
Conns == TopConns \cup InnerConns
TopRules == {"r1", "r2"}
InnerRules == {"rk"}
Rules == TopRules \cup InnerRules

\* ConnectionLayer.from_layer / to_layer: fixed when the connection is built.
from_layer(c) ==
    CASE c = "ab" -> "A"
      [] c = "kb" -> "K"
      [] c = "ak" -> "A"
      [] c = "ap" -> "A"
      [] c = "pq" -> "P"

to_layer(c) ==
    CASE c = "ab" -> "B"
      [] c = "kb" -> "B"
      [] c = "ak" -> "K"
      [] c = "ap" -> "P"
      [] c = "pq" -> "Q"

\* The argument lists K was constructed with (CompositeLayer.__init__).
KConfigs ==
    { [nl |-> << >>,         cn |-> << >>,     lr |-> << >>],
      [nl |-> <<"P">>,       cn |-> << >>,     lr |-> << >>],
      [nl |-> <<"P">>,       cn |-> <<"pq">>,  lr |-> << >>],
      [nl |-> <<"P", "Q">>,  cn |-> <<"pq">>,  lr |-> <<"rk">>] }

(* ------------------------------------------------------------------ *)
(* Signals: opaque graph handles                                      *)
(* ------------------------------------------------------------------ *)
\* None / not yet defined.
NoSig == [k |-> "none", of |-> "-", g |-> 0]
\* The input signal of a composite, the output of a connection's sub-node,
\* the output of a neuron layer; g is the graph the node was built in.
Sig(kind, obj, gr) == [k |-> kind, of |-> obj, g |-> gr]

NoGraph == 0

VARIABLES
    neuron_layers,    \* [Composites -> Seq(NLayers)]   self.neuron_layers
    connections,      \* [Composites -> Seq(Conns)]     self.connections
    learning_rules,   \* [Composites -> Seq(Rules)]     self.learning_rules
    graph,            \* self.graph of the model: NoGraph, or the n-th tf.Graph
    input,            \* self.input of the model: NoSig, or the placeholder
    inputs,           \* [NLayers -> Seq(signal)]  what add_input accumulated
    output,           \* [NLayers \cup {"top"} -> signal]  .output
    cout,             \* [Conns -> signal]  connection.output
    cin,              \* [Conns -> signal]  connection.input
    ccompiled,        \* [Conns -> BOOLEAN] connection._compile() has run
    rcompiled,        \* [Rules -> BOOLEAN] rule._compile_into_model() has run
    stack,            \* call stack of _compile frames, innermost last
    err,              \* the exception the last call raised, if it was compile()
    log,              \* events of compile(), if it is the current / last call
    entry,            \* the model's fields at entry of the last compile()
    rpc,              \* where the run loop stands: idle, init, pull, eval, callback
    mode,             \* which loop runs: run_time or continue_run_time
    runnables,        \* the local of line 162 / 194: name -> entity to evaluate
    sessions,         \* every tf.Session created so far, in order of creation
    sess,             \* the session of the current run (its index), 0 for none
    data,             \* what the data source has still to yield
    step,             \* the loop index i of enumerate
    frame,            \* the frame pulled last (the local "data")
    feed,             \* the feed_dict of the last sess.run
    results,          \* what the last sess.run returned
    learned,          \* what the last learn(session) returned
    source,           \* the data source the current / last run was given
    rlog,             \* events of the current / last run
    rerr              \* how the last run ended

cvars == <<neuron_layers, connections, learning_rules, graph, input, inputs,
           output, cout, cin, ccompiled, rcompiled, stack, err, log, entry>>

rvars == <<rpc, mode, runnables, sessions, sess, data, step, frame, feed,
           results, learned, source, rlog, rerr>>

vars == <<cvars, rvars>>

(* ------------------------------------------------------------------ *)
(* Helpers                                                            *)
(* ------------------------------------------------------------------ *)
\* A frame of a data source: a raw array ("raw") or a full feed mapping
\* ("map"); id tells the frames of one source apart.
NoFrame == [kind |-> "-", id |-> 0]
NoFeed == [how |-> "-", fr |-> NoFrame]

REvent(e, k, how, fr) == [ev |-> e, k |-> k, how |-> how, fr |-> fr]

Range(s) == {s[k] : k \in 1..Len(s)}

Min(S) == CHOOSE x \in S : \A y \in S : x <= y

\* A lookup that answers the last position (Python's -1) for a missing x.
IndexOfOrLast(s, x) ==
    IF x \in Range(s) THEN Min({k \in 1..Len(s) : s[k] = x}) ELSE Len(s)

\* list.index(x): the first position holding x (0 stands for ValueError).
IndexOf(s, x) ==
    IF x \in Range(s) THEN Min({k \in 1..Len(s) : s[k] = x}) ELSE 0

NoErr == [kind |-> "none", by |-> "-"]

Event(e, by, obj, sig) == [ev |-> e, by |-> by, obj |-> obj, sig |-> sig]

Frame(self, pc, i, j, tos) ==
    [self |-> self, pc |-> pc, i |-> i, j |-> j, tos |-> tos]

Top == stack[Len(stack)]

\* The stack with its innermost frame replaced.
SetTop(f) == [stack EXCEPT ![Len(stack)] = f]

\* self.input as _compile reads it: the model's placeholder, or what
\* add_input accumulated on the nested composite (None when nothing was).
InputOf(self) ==
    IF self = "top" THEN input
    ELSE IF inputs[self] = << >> THEN NoSig
    ELSE Sig("in", self, graph)

Raise(kind, by) == [kind |-> kind, by |-> by]

\* ---- the collaborators, as the written specification describes them ----

\* NeuronLayer.add_input: one more incoming signal for layer l.
add_input(ins, l, s) == [ins EXCEPT ![l] = Append(@, s)]

\* NeuronLayer._compile: the layer's output, produced from its inputs.
layer_output(l) == Sig("y", l, graph)

\* ConnectionLayer._compile_output_node: the connection's output sub-node,
\* which can be built before the connection's input is known.
compile_output_node(c) == Sig("out", c, graph)

\* ---- where control stands next, for each loop of _compile ----

\* The connection loop of lines 50-53, about to take its i-th connection.
AtNodes(f, i) ==
    IF i <= Len(connections[f.self])
    THEN [f EXCEPT !.pc = "nodes", !.i = i]
    ELSE [f EXCEPT !.pc = "first", !.i = 1]

\* The nested loops of lines 59-61, about to deliver the j-th queued
\* connection output of neuron layer i.
AtDeliver(f, i, j) ==
    LET n == Len(neuron_layers[f.self])
        cand == {k \in i..n : IF k = i THEN j <= Len(f.tos[k])
                                       ELSE f.tos[k] # << >>}
    IN  IF cand = {}
        THEN [f EXCEPT !.pc = "layers", !.i = 1, !.j = 1]
        ELSE LET k == Min(cand)
             IN  [f EXCEPT !.pc = "deliver", !.i = k,
                           !.j = IF k = i THEN j ELSE 1]

\* A loop over the neuron layers that stops after the first one.
AtLayersOnlyFirst(f, i) ==
    IF i <= 1
    THEN [f EXCEPT !.pc = "layers", !.i = i]
    ELSE [f EXCEPT !.pc = "barrier", !.i = 1]

\* The loop of lines 64-65, about to compile neuron layer i.
AtLayers(f, i) ==
    IF i <= Len(neuron_layers[f.self])
    THEN [f EXCEPT !.pc = "layers", !.i = i]
    ELSE [f EXCEPT !.pc = "barrier", !.i = 1]

\* A loop over the learning rules that stops after the first one.
AtRulesOnlyFirst(f, i) ==
    IF i <= 1 /\ i <= Len(learning_rules[f.self])
    THEN [f EXCEPT !.pc = "rules", !.i = i]
    ELSE [f EXCEPT !.pc = "output", !.i = 1]

\* The loop of lines 75-76, about to compile learning rule i.
AtRules(f, i) ==
    IF i <= Len(learning_rules[f.self])
    THEN [f EXCEPT !.pc = "rules", !.i = i]
    ELSE [f EXCEPT !.pc = "output", !.i = 1]

\* The loop of lines 70-72, about to bind and compile connection i.
AtConns(f, i) ==
    IF i <= Len(connections[f.self])
    THEN [f EXCEPT !.pc = "conns", !.i = i]
    ELSE AtRules(f, 1)

(* ------------------------------------------------------------------ *)
(* Construction                                                       *)
(* ------------------------------------------------------------------ *)
Idle == stack = << >> /\ rpc = "idle"

\* BPNNModel.__init__ for the model; CompositeLayer.__init__ for K, with
\* the lists its caller passed.
Init ==
    /\ \E k \in KConfigs :
          /\ neuron_layers = [c \in Composites |->
                                 IF c = "K" THEN k.nl ELSE << >>]
          /\ connections = [c \in Composites |->
                                 IF c = "K" THEN k.cn ELSE << >>]
          /\ learning_rules = [c \in Composites |->
                                 IF c = "K" THEN k.lr ELSE << >>]
    /\ graph = NoGraph
    /\ input = NoSig
    /\ inputs = [l \in NLayers |-> << >>]
    /\ output = [l \in NLayers \cup {"top"} |-> NoSig]
    /\ cout = [c \in Conns |-> NoSig]
    /\ cin = [c \in Conns |-> NoSig]
    /\ ccompiled = [c \in Conns |-> FALSE]
    /\ rcompiled = [r \in Rules |-> FALSE]
    /\ stack = << >>
    /\ err = NoErr
    /\ log = << >>
    /\ entry = [graph |-> NoGraph, input |-> NoSig, output |-> NoSig,
                nl |-> << >>, cn |-> << >>, lr |-> << >>]
    /\ rpc = "idle"
    /\ mode = "-"
    /\ runnables = << >>
    /\ sessions = << >>
    /\ sess = 0
    /\ data = << >>
    /\ step = 0
    /\ frame = NoFrame
    /\ feed = NoFeed
    /\ results = << >>
    /\ learned = << >>
    /\ source = << >>
    /\ rlog = << >>
    /\ rerr = "none"

add_neuron_layer(neuron_layer) ==
    /\ Idle
    /\ neuron_layers' = [neuron_layers EXCEPT
                            !["top"] = Append(@, neuron_layer)]
    /\ err' = NoErr
    /\ log' = << >>
    /\ UNCHANGED <<connections, learning_rules, graph, input, inputs, output,
                   cout, cin, ccompiled, rcompiled, stack, entry>>
    /\ UNCHANGED rvars

add_connection_layer(connection_layer) ==
    /\ Idle
    /\ connections' = [connections EXCEPT
                          !["top"] = Append(@, connection_layer)]
    /\ err' = NoErr
    /\ log' = << >>
    /\ UNCHANGED <<neuron_layers, learning_rules, graph, input, inputs, output,
                   cout, cin, ccompiled, rcompiled, stack, entry>>
    /\ UNCHANGED rvars

add_learning_rule(learning_rule) ==
    /\ Idle
    /\ learning_rules' = [learning_rules EXCEPT
                            !["top"] = Append(@, learning_rule)]
    /\ err' = NoErr
    /\ log' = << >>
    /\ UNCHANGED <<neuron_layers, connections, graph, input, inputs, output,
                   cout, cin, ccompiled, rcompiled, stack, entry>>
    /\ UNCHANGED rvars

(* ------------------------------------------------------------------ *)
(* BPNNModel.compile and CompositeLayer._compile, statement by         *)
(* statement; nothing else runs while a compile is on the stack.       *)
(* ------------------------------------------------------------------ *)

\* Lines 127-134: a new graph, the input placeholder, then self._compile().
compile ==
    /\ Idle
    /\ graph' = graph + 1
    /\ input' = Sig("in", "top", graph + 1)
    /\ entry' = [graph |-> graph, input |-> input, output |-> output["top"],
                 nl |-> neuron_layers["top"], cn |-> connections["top"],
                 lr |-> learning_rules["top"]]
    /\ stack' = <<Frame("top", "check", 1, 1, << >>)>>
    /\ err' = NoErr
    /\ log' = << >>
    /\ UNCHANGED <<neuron_layers, connections, learning_rules, inputs, output,
                   cout, cin, ccompiled, rcompiled>>
    /\ UNCHANGED rvars

\* A test that never fires.
NoNeuronLayersWrongTest(self) == Len(neuron_layers[self]) < 0

\* Line 45: the test that guards the whole pass.
NoNeuronLayers(self) == Len(neuron_layers[self]) = 0

\* Lines 45-49.
CheckLayers ==
    /\ stack # << >>
    /\ Top.pc = "check"
    /\ IF NoNeuronLayers(Top.self)
       THEN /\ err' = Raise("ValueError:no neuron layer", Top.self)
            /\ stack' = << >>
       ELSE /\ stack' = SetTop(AtNodes(
                   [Top EXCEPT !.tos = [k \in 1..Len(neuron_layers[Top.self])
                                           |-> << >>]], 1))
            /\ err' = err
    /\ UNCHANGED <<neuron_layers, connections, learning_rules, graph, input,
                   inputs, output, cout, cin, ccompiled, rcompiled, log,
                   entry>>
    /\ UNCHANGED rvars

\* Queueing that keeps only the latest connection output of an index.
QueueOverwrite(tos, to_i, o) == [tos EXCEPT ![to_i] = <<o>>]

\* Line 53: connection_tos.setdefault(to_i, []).append(connection.output).
Queue(tos, to_i, o) == [tos EXCEPT ![to_i] = Append(@, o)]

\* Lines 50-53, one connection: build its output sub-node, look its
\* to_layer up in self.neuron_layers, queue its output under that index.
ConnectionOutputNode ==
    /\ stack # << >>
    /\ Top.pc = "nodes"
    /\ LET self == Top.self
           c == connections[self][Top.i]
           o == compile_output_node(c)
           to_i == IndexOf(neuron_layers[self], to_layer(c))
       IN  /\ cout' = [cout EXCEPT ![c] = o]
           /\ log' = Append(log, Event("node", self, c, o))
           /\ IF to_i = 0
              THEN /\ err' = Raise("ValueError:not in list", self)
                   /\ stack' = << >>
              ELSE /\ stack' = SetTop(AtNodes(
                          [Top EXCEPT !.tos = Queue(@, to_i, o)], Top.i + 1))
                   /\ err' = err
    /\ UNCHANGED <<neuron_layers, connections, learning_rules, graph, input,
                   inputs, output, cin, ccompiled, rcompiled, entry>>
    /\ UNCHANGED rvars

\* The composite's input routed to the last neuron layer.
InputTargetLast(self) == neuron_layers[self][Len(neuron_layers[self])]

\* Line 56: which neuron layer gets the composite's own input.
InputTarget(self) == neuron_layers[self][1]

\* Line 56.
FirstLayerInput ==
    /\ stack # << >>
    /\ Top.pc = "first"
    /\ LET self == Top.self
           l == InputTarget(self)
           s == InputOf(self)
       IN  /\ inputs' = add_input(inputs, l, s)
           /\ log' = Append(log, Event("add_input", self, l, s))
           /\ stack' = SetTop(AtDeliver(Top, 1, 1))
    /\ UNCHANGED <<neuron_layers, connections, learning_rules, graph, input,
                   output, cout, cin, ccompiled, rcompiled, err, entry>>
    /\ UNCHANGED rvars

\* Lines 59-61, one add_input of the nested loops.
DeliverConnectionInput ==
    /\ stack # << >>
    /\ Top.pc = "deliver"
    /\ LET self == Top.self
           l == neuron_layers[self][Top.i]
           s == Top.tos[Top.i][Top.j]
       IN  /\ inputs' = add_input(inputs, l, s)
           /\ log' = Append(log, Event("add_input", self, l, s))
           /\ stack' = SetTop(AtDeliver(Top, Top.i, Top.j + 1))
    /\ UNCHANGED <<neuron_layers, connections, learning_rules, graph, input,
                   output, cout, cin, ccompiled, rcompiled, err, entry>>
    /\ UNCHANGED rvars

\* Lines 64-65, a primitive neuron layer: NeuronLayer._compile defines its
\* output from the inputs accumulated so far.
CompileNeuronLayer ==
    /\ stack # << >>
    /\ Top.pc = "layers"
    /\ LET self == Top.self
           l == neuron_layers[self][Top.i]
       IN  /\ l \notin Composites
           /\ output' = [output EXCEPT ![l] = layer_output(l)]
           /\ log' = Append(log, Event("layer", self, l, NoSig))
           /\ stack' = SetTop(AtLayers(Top, Top.i + 1))
    /\ UNCHANGED <<neuron_layers, connections, learning_rules, graph, input,
                   inputs, cout, cin, ccompiled, rcompiled, err, entry>>
    /\ UNCHANGED rvars

\* A pass that compiles a nested composite as if it were a primitive
\* neuron layer, without entering it.
NestedTreatedAsPrimitive ==
    /\ stack # << >>
    /\ Top.pc = "layers"
    /\ LET self == Top.self
           l == neuron_layers[self][Top.i]
       IN  /\ l \in Composites
           /\ output' = [output EXCEPT ![l] = layer_output(l)]
           /\ log' = Append(log, Event("layer", self, l, NoSig))
           /\ stack' = SetTop(AtLayers(Top, Top.i + 1))
    /\ UNCHANGED <<neuron_layers, connections, learning_rules, graph, input,
                   inputs, cout, cin, ccompiled, rcompiled, err, entry>>
    /\ UNCHANGED rvars

\* Lines 64-65, a nested composite: neuron_layer._compile() is this same
\* method, entered on the nested composite.
EnterNestedComposite ==
    /\ stack # << >>
    /\ Top.pc = "layers"
    /\ LET self == Top.self
           l == neuron_layers[self][Top.i]
       IN  /\ l \in Composites
           /\ log' = Append(log, Event("call", self, l, NoSig))
           /\ stack' = Append(stack, Frame(l, "check", 1, 1, << >>))
    /\ UNCHANGED <<neuron_layers, connections, learning_rules, graph, input,
                   inputs, output, cout, cin, ccompiled, rcompiled, err,
                   entry>>
    /\ UNCHANGED rvars

\* Lines 68-69: the control-dependency barrier on every neuron layer's
\* input, opened before any connection is bound.
ControlDependencies ==
    /\ stack # << >>
    /\ Top.pc = "barrier"
    /\ log' = Append(log, Event("barrier", Top.self, Top.self, NoSig))
    /\ stack' = SetTop(AtConns(Top, 1))
    /\ UNCHANGED <<neuron_layers, connections, learning_rules, graph, input,
                   inputs, output, cout, cin, ccompiled, rcompiled, err,
                   entry>>
    /\ UNCHANGED rvars

\* Lines 70-72, one connection: bind its input to its from_layer's output,
\* then compile it.
BindAndCompileConnection ==
    /\ stack # << >>
    /\ Top.pc = "conns"
    /\ LET self == Top.self
           c == connections[self][Top.i]
           s == output[from_layer(c)]
       IN  /\ cin' = [cin EXCEPT ![c] = s]
           /\ ccompiled' = [ccompiled EXCEPT ![c] = TRUE]
           /\ log' = log \o <<Event("bind", self, c, s),
                              Event("connection", self, c, NoSig)>>
           /\ stack' = SetTop(AtConns(Top, Top.i + 1))
    /\ UNCHANGED <<neuron_layers, connections, learning_rules, graph, input,
                   inputs, output, cout, rcompiled, err, entry>>
    /\ UNCHANGED rvars

\* Lines 75-76, one learning rule.
CompileLearningRule ==
    /\ stack # << >>
    /\ Top.pc = "rules"
    /\ LET self == Top.self
           r == learning_rules[self][Top.i]
       IN  /\ rcompiled' = [rcompiled EXCEPT ![r] = TRUE]
           /\ log' = Append(log, Event("rule", self, r, NoSig))
           /\ stack' = SetTop(AtRules(Top, Top.i + 1))
    /\ UNCHANGED <<neuron_layers, connections, learning_rules, graph, input,
                   inputs, output, cout, cin, ccompiled, err, entry>>
    /\ UNCHANGED rvars

\* The composite's output taken from the first neuron layer.
OutputSourceFirst(self) == neuron_layers[self][1]

\* Line 79: which neuron layer's output becomes the composite's.
OutputSource(self) == neuron_layers[self][Len(neuron_layers[self])]

\* Line 79, and the return: to the caller of compile(), or into the
\* enclosing composite's loop of lines 64-65.
SetOutput ==
    /\ stack # << >>
    /\ Top.pc = "output"
    /\ LET self == Top.self
           s == output[OutputSource(self)]
           d == Len(stack)
       IN  /\ output' = [output EXCEPT ![self] = s]
           /\ IF d = 1
              THEN /\ stack' = << >>
                   /\ log' = Append(log, Event("output", self, self, s))
              ELSE /\ stack' = [SubSeq(stack, 1, d - 1) EXCEPT
                                  ![d - 1] = AtLayers(@, @.i + 1)]
                   /\ log' = log \o
                         <<Event("output", self, self, s),
                           Event("layer", stack[d - 1].self, self, NoSig)>>
    /\ UNCHANGED <<neuron_layers, connections, learning_rules, graph, input,
                   inputs, cout, cin, ccompiled, rcompiled, err, entry>>
    /\ UNCHANGED rvars

CompileStep ==
    \/ CheckLayers
    \/ ConnectionOutputNode
    \/ FirstLayerInput
    \/ DeliverConnectionInput
    \/ CompileNeuronLayer
    \/ EnterNestedComposite
    \/ ControlDependencies
    \/ BindAndCompileConnection
    \/ CompileLearningRule
    \/ SetOutput

(* ------------------------------------------------------------------ *)
(* BPNNModel.run_time, continue_run_time and learn                     *)
(* ------------------------------------------------------------------ *)

\* layer.name: chosen by whoever built the object; nothing keeps a learning
\* rule from carrying the name of a neuron layer, as r2 does.
name(e) == IF e = "r2" THEN "A" ELSE e

Max(S) == CHOOSE x \in S : \A y \in S : y <= x

\* Lines 35-37: a dict comprehension over neuron layers, then connections,
\* then learning rules; a later entry of the same name replaces an earlier.
ops(self) ==
    LET cl == neuron_layers[self] \o connections[self] \o learning_rules[self]
        names == {name(cl[k]) : k \in 1..Len(cl)}
    IN  [n \in names |-> cl[Max({k \in 1..Len(cl) : name(cl[k]) = n})]]

\* A loop without the isinstance test: every frame goes to the placeholder.
FeedOfAlwaysPlaceholder(m, fr) == [how |-> "placeholder", fr |-> fr]

\* A loop whose isinstance test is in continue_run_time too.
FeedOfMappingEverywhere(m, fr) ==
    IF fr.kind = "map"
    THEN [how |-> "verbatim", fr |-> fr]
    ELSE [how |-> "placeholder", fr |-> fr]

\* Lines 169-173 and line 198: the feed_dict of one step.
FeedOf(m, fr) ==
    IF m = "run_time" /\ fr.kind = "map"
    THEN [how |-> "verbatim", fr |-> fr]
    ELSE [how |-> "placeholder", fr |-> fr]

\* A session that is never closed.
SessionExitLeak(sn) == sn

\* The end of the with-block of line 164 / 195: Session.__exit__ closes
\* the session, whether the block ended normally or by an exception.
SessionExit(sn) == [sn EXCEPT ![sess].open = FALSE]

\* Leaving the run: the with-block ends, then the call returns or raises.
LeaveRun(outcome) ==
    /\ sessions' = SessionExit(sessions)
    /\ rlog' = Append(rlog, REvent("release", sess, outcome, NoFrame))
    /\ rerr' = outcome
    /\ rpc' = "idle"
    /\ sess' = 0

\* An index that goes on from where the previous run stopped.
FirstIndexCarried == step

\* Line 166 (197): enumerate counts from 0, by one.
FirstIndex == 0

NextIndex(k) == k + 1

\* Lines 162-164 (194-195): the runnables, then a new session is entered.
StartRun(m, src) ==
    /\ Idle
    /\ mode' = m
    /\ runnables' = ops("top")
    /\ sessions' = Append(sessions,
                          [open |-> TRUE, vars |-> "uninit", graph |-> graph])
    /\ sess' = Len(sessions) + 1
    /\ source' = src
    /\ data' = src
    /\ step' = FirstIndex
    /\ frame' = NoFrame
    /\ feed' = NoFeed
    /\ results' = << >>
    /\ learned' = << >>
    /\ rlog' = <<REvent("acquire", Len(sessions) + 1, m, NoFrame)>>
    /\ rerr' = "none"
    /\ rpc' = "init"
    /\ UNCHANGED cvars

run_time(data_generator) == StartRun("run_time", data_generator)

\* A run that declares the input placeholder anew before it starts.
continue_run_time_rebuilding(data_generator) ==
    /\ Idle
    /\ input' = Sig("in", "top", graph + 1)
    /\ mode' = "continue_run_time"
    /\ runnables' = ops("top")
    /\ sessions' = Append(sessions,
                          [open |-> TRUE, vars |-> "uninit", graph |-> graph])
    /\ sess' = Len(sessions) + 1
    /\ source' = data_generator
    /\ data' = data_generator
    /\ step' = FirstIndex
    /\ frame' = NoFrame
    /\ feed' = NoFeed
    /\ results' = << >>
    /\ learned' = << >>
    /\ rlog' = <<REvent("acquire", Len(sessions) + 1, "continue_run_time",
                        NoFrame)>>
    /\ rerr' = "none"
    /\ rpc' = "init"
    /\ UNCHANGED <<neuron_layers, connections, learning_rules, graph, inputs,
                   output, cout, cin, ccompiled, rcompiled, stack, err, log,
                   entry>>

\* Lines 193-195: the same start as run_time's.
continue_run_time(data_generator) ==
    StartRun("continue_run_time", data_generator)

\* A run that goes to its loop without initialising the variables.
InitVariablesSkipped ==
    /\ rpc = "init"
    /\ rpc' = "pull"
    /\ UNCHANGED <<mode, runnables, sessions, sess, data, step, frame, feed,
                   results, learned, source, rlog, rerr>>
    /\ UNCHANGED cvars

\* Line 165 (196): tf.global_variables_initializer().run().
InitVariables ==
    /\ rpc = "init"
    /\ sessions' = [sessions EXCEPT ![sess].vars = "init"]
    /\ rlog' = Append(rlog, REvent("init", sess, "-", NoFrame))
    /\ rpc' = "pull"
    /\ UNCHANGED <<mode, runnables, sess, data, step, frame, feed, results,
                   learned, source, rerr>>
    /\ UNCHANGED cvars

\* Line 166 (197): enumerate pulls the next frame, or the source is
\* exhausted and the loop, the with-block and the call end.
PullFrame ==
    /\ rpc = "pull"
    /\ IF data = << >>
       THEN /\ LeaveRun("returned")
            /\ UNCHANGED <<data, frame>>
       ELSE /\ frame' = Head(data)
            /\ data' = Tail(data)
            /\ rlog' = Append(rlog, REvent("pull", step, "-", Head(data)))
            /\ rpc' = "eval"
            /\ UNCHANGED <<sessions, sess, rerr>>
    /\ UNCHANGED <<mode, runnables, step, feed, results, learned, source>>
    /\ UNCHANGED cvars

\* Line 166 (197): the data source raises instead of yielding.
SourceRaises ==
    /\ rpc = "pull"
    /\ LeaveRun("raised:source")
    /\ UNCHANGED <<mode, runnables, data, step, frame, feed, results,
                   learned, source>>
    /\ UNCHANGED cvars

\* A loop that enters the callback first, with the results it already
\* had, and evaluates the frame afterwards.
EvalStepCallbackFirst ==
    /\ rpc = "eval"
    /\ feed' = FeedOf(mode, frame)
    /\ results' = results
    /\ rlog' = rlog \o <<REvent("callback", step, "-", frame),
                          REvent("eval", step, FeedOf(mode, frame).how, frame)>>
    /\ rpc' = "callback"
    /\ UNCHANGED <<mode, runnables, sessions, sess, data, step, frame,
                   learned, source, rerr>>
    /\ UNCHANGED cvars

\* Lines 169-176 (198-199): sess.run returns the results, and the callback
\* is entered with them.
EvalStep ==
    /\ rpc = "eval"
    /\ feed' = FeedOf(mode, frame)
    /\ results' = [n \in DOMAIN runnables |->
                      [of |-> runnables[n], at |-> step]]
    /\ rlog' = rlog \o <<REvent("eval", step, FeedOf(mode, frame).how, frame),
                          REvent("callback", step, "-", frame)>>
    /\ rpc' = "callback"
    /\ UNCHANGED <<mode, runnables, sessions, sess, data, step, frame,
                   learned, source, rerr>>
    /\ UNCHANGED cvars

\* A loop that swallows the evaluation's exception and goes on with the
\* next frame.
EvalRaisesSwallowed ==
    /\ rpc = "eval"
    /\ step' = NextIndex(step)
    /\ rpc' = "pull"
    /\ UNCHANGED <<mode, runnables, sessions, sess, data, frame, feed,
                   results, learned, source, rlog, rerr>>
    /\ UNCHANGED cvars

\* Lines 171/173 (198): sess.run raises (a shape mismatch, say).
EvalRaises ==
    /\ rpc = "eval"
    /\ LeaveRun("raised:eval")
    /\ UNCHANGED <<mode, runnables, data, step, frame, feed, results,
                   learned, source>>
    /\ UNCHANGED cvars

\* A learn that evaluates the runnables of the run loop instead of the
\* learning rules' update operations.
learnEvaluatesOps ==
    /\ rpc = "callback"
    /\ learned' = ops("top")
    /\ sessions' = [sessions EXCEPT ![sess].vars = "learned"]
    /\ UNCHANGED <<rpc, mode, runnables, sess, data, step, frame, feed,
                   results, source, rlog, rerr>>
    /\ UNCHANGED cvars

\* A learn that uses the session as a context manager, and so closes it.
learnClosesSession ==
    /\ rpc = "callback"
    /\ learned' = [n \in {name(learning_rules["top"][k]) :
                              k \in 1..Len(learning_rules["top"])} |->
                      learning_rules["top"][
                          Max({k \in 1..Len(learning_rules["top"]) :
                                  name(learning_rules["top"][k]) = n})]]
    /\ sessions' = [sessions EXCEPT ![sess].vars = "learned",
                                    ![sess].open = FALSE]
    /\ UNCHANGED <<rpc, mode, runnables, sess, data, step, frame, feed,
                   results, source, rlog, rerr>>
    /\ UNCHANGED cvars

\* Lines 188-190, called by the callback on the session it was handed.
learn ==
    /\ rpc = "callback"
    /\ learned' = [n \in {name(learning_rules["top"][k]) :
                              k \in 1..Len(learning_rules["top"])} |->
                      learning_rules["top"][
                          Max({k \in 1..Len(learning_rules["top"]) :
                                  name(learning_rules["top"][k]) = n})]]
    /\ sessions' = [sessions EXCEPT ![sess].vars = "learned"]
    /\ UNCHANGED <<rpc, mode, runnables, sess, data, step, frame, feed,
                   results, source, rlog, rerr>>
    /\ UNCHANGED cvars

\* Line 176 (199): the callback returns; enumerate's index moves on.
CallbackReturns ==
    /\ rpc = "callback"
    /\ step' = NextIndex(step)
    /\ rlog' = Append(rlog, REvent("returned", step, "-", frame))
    /\ rpc' = "pull"
    /\ UNCHANGED <<mode, runnables, sessions, sess, data, frame, feed,
                   results, learned, source, rerr>>
    /\ UNCHANGED cvars

\* Line 176 (199): the callback raises.
CallbackRaises ==
    /\ rpc = "callback"
    /\ LeaveRun("raised:callback")
    /\ UNCHANGED <<mode, runnables, data, step, frame, feed, results,
                   learned, source>>
    /\ UNCHANGED cvars

RunStep ==
    \/ InitVariables
    \/ PullFrame
    \/ SourceRaises
    \/ EvalStep
    \/ EvalRaises
    \/ learn
    \/ CallbackReturns
    \/ CallbackRaises

(* ------------------------------------------------------------------ *)
(* The construction-and-compile specification                          *)
(* ------------------------------------------------------------------ *)
\* A caller registers each object at most once (a layer's name is unique
\* within a model); nothing in the code keeps it from registering more
\* after a compile, or from compiling again.
CompileRules == {"r1"}

Next ==
    \/ \E l \in TopLayers :
          /\ Len(neuron_layers["top"]) < MaxLayers
          /\ l \notin Range(neuron_layers["top"])
          /\ add_neuron_layer(l)
    \/ \E c \in TopConns :
          /\ Len(connections["top"]) < MaxConns
          /\ c \notin Range(connections["top"])
          /\ add_connection_layer(c)
    \/ \E r \in CompileRules :
          /\ Len(learning_rules["top"]) < MaxRules
          /\ r \notin Range(learning_rules["top"])
          /\ add_learning_rule(r)
    \/ (graph < MaxCompiles /\ compile)
    \/ CompileStep

Spec == Init /\ [][Next]_vars

(* ------------------------------------------------------------------ *)
(* The run specification: a small model is built, compiled and run     *)
(* ------------------------------------------------------------------ *)
MaxFrames == 2      \* frames a data source yields
MaxRuns == 2        \* runs (sessions) of one model

RunLayers == {"A", "K"}
RunConns == {"ak"}

FrameKinds == {"raw", "map"}

\* The finite data sources: every sequence of at most MaxFrames frames.
Sources ==
    UNION {{[k \in 1..n |-> [kind |-> f[k], id |-> k]] :
               f \in [1..n -> FrameKinds]} : n \in 0..MaxFrames}

\* K was built with one inner neuron layer; the model is compiled once,
\* after everything is registered, and run once that compile has succeeded.
RunInit ==
    /\ Init
    /\ neuron_layers["K"] = <<"P">>
    /\ connections["K"] = << >>

RunNext ==
    \/ \E l \in RunLayers :
          /\ Len(neuron_layers["top"]) < MaxLayers
          /\ l \notin Range(neuron_layers["top"])
          /\ graph = NoGraph
          /\ add_neuron_layer(l)
    \/ \E c \in RunConns :
          /\ Len(connections["top"]) < MaxConns
          /\ c \notin Range(connections["top"])
          /\ graph = NoGraph
          /\ add_connection_layer(c)
    \/ \E r \in TopRules :
          /\ Len(learning_rules["top"]) < MaxRules
          /\ r \notin Range(learning_rules["top"])
          /\ graph = NoGraph
          /\ add_learning_rule(r)
    \/ (graph = NoGraph /\ compile)
    \/ CompileStep
    \/ \E src \in Sources :
          /\ output["top"] # NoSig
          /\ Len(sessions) < MaxRuns
          /\ run_time(src)
    \/ \E src \in Sources :
          /\ output["top"] # NoSig
          /\ Len(sessions) < MaxRuns
          /\ continue_run_time(src)
    \/ RunStep

RunSpec == RunInit /\ [][RunNext]_vars

(* ================================================================== *)
(* Properties of the compile pass (checked under Spec)                 *)
(* ================================================================== *)
LogIdx == 1..Len(log)

Frames == {stack[k] : k \in 1..Len(stack)}

\* The input signal of composite c, as seen from outside _compile.
CompositeInput(c) ==
    IF c = "top" THEN [k |-> "in", of |-> "top", g |-> graph]
    ELSE IF inputs[c] = << >> THEN NoSig
    ELSE [k |-> "in", of |-> c, g |-> graph]

\* The signals add_input handed to neuron layer l before log position k.
SigsTo(l, k) ==
    LET sel == SelectSeq(SubSeq(log, 1, k - 1),
                         LAMBDA e : e.ev = "add_input" /\ e.obj = l)
    IN  [p \in 1..Len(sel) |-> sel[p].sig]

\* What neuron layer l of composite c is due: the composite's input if l
\* is the first neuron layer, then the output of every connection of c
\* whose to_layer is l, in the order the connections were added.
DueInputs(c, l) ==
    LET into == SelectSeq(connections[c], LAMBDA x : to_layer(x) = l)
    IN  (IF l = neuron_layers[c][1] THEN <<CompositeInput(c)>> ELSE << >>)
        \o [p \in 1..Len(into) |->
               [k |-> "out", of |-> into[p], g |-> graph]]

ConfigError == "ValueError:no neuron layer"
LookupError == "ValueError:not in list"

\* C5 (as amended): a composite with zero neuron layers never gets past
\* the test of line 45 and does nothing in _compile: no event of the
\* compile log is its own; and when the root model's compile() raises the
\* configuration error, its sequences and its output are as they were at
\* entry, while its graph and input placeholder are the newly created ones.
C5_ConfigErrorBeforeAnyCompileWork ==
    /\ \A f \in Frames : f.pc # "check" => Len(neuron_layers[f.self]) > 0
    /\ \A k \in LogIdx : Len(neuron_layers[log[k].by]) > 0
    /\ err.kind = ConfigError =>
          /\ Len(neuron_layers[err.by]) = 0
          /\ stack = << >>
          /\ err.by = "top" =>
                /\ log = << >>
                /\ output["top"] = entry.output
                /\ neuron_layers["top"] = entry.nl
                /\ connections["top"] = entry.cn
                /\ learning_rules["top"] = entry.lr
                /\ graph = entry.graph + 1
                /\ input = [k |-> "in", of |-> "top", g |-> graph]

\* C5 as claimed: ... and when the root model's compile() raises the
\* configuration error, nothing of the model's state has changed since
\* entry (graph and input included).
C5_Original ==
    /\ \A f \in Frames : f.pc # "check" => Len(neuron_layers[f.self]) > 0
    /\ \A k \in LogIdx : Len(neuron_layers[log[k].by]) > 0
    /\ (err.kind = ConfigError /\ err.by = "top") =>
          /\ log = << >>
          /\ output["top"] = entry.output
          /\ neuron_layers["top"] = entry.nl
          /\ connections["top"] = entry.cn
          /\ learning_rules["top"] = entry.lr
          /\ graph = entry.graph
          /\ input = entry.input

\* The root model's compile() has just raised the configuration error.
C5_Witness ==
    /\ err.kind = ConfigError
    /\ err.by = "top"
    /\ connections["top"] # << >>

\* C6: a composite with at least one neuron layer and a connection whose
\* to_layer is not among its neuron layers raises the lookup error in the
\* loop of lines 50-53: it never gets past that loop, it has delivered no
\* input, compiled no neuron layer, connection or rule, and set no output.
C6_LookupErrorBeforeLayers ==
    /\ \A f \in Frames :
          /\ f.pc \notin {"check", "nodes"} =>
                \A x \in Range(connections[f.self]) :
                   to_layer(x) \in Range(neuron_layers[f.self])
          /\ f.pc = "nodes" =>
                \A m \in 1..(f.i - 1) :
                   to_layer(connections[f.self][m])
                      \in Range(neuron_layers[f.self])
    /\ \A k \in LogIdx :
          (\E x \in Range(connections[log[k].by]) :
              to_layer(x) \notin Range(neuron_layers[log[k].by]))
          => log[k].ev = "node"
    /\ err.kind = LookupError =>
          /\ stack = << >>
          /\ Len(neuron_layers[err.by]) >= 1
          /\ log # << >>
          /\ log[Len(log)].ev = "node"
          /\ log[Len(log)].by = err.by
          /\ to_layer(log[Len(log)].obj) \notin Range(neuron_layers[err.by])
          /\ err.by = "top" => output["top"] = entry.output

\* The lookup error raised on the second connection of the model, after
\* the first connection's sub-node was built and queued.
C6_Witness ==
    /\ err.kind = LookupError
    /\ err.by = "top"
    /\ Len(log) = 2
    /\ Len(neuron_layers["top"]) = 2

\* C7: within one composite, every connection's output sub-node is built
\* before any neuron layer is compiled; a connection is bound and compiled
\* only after every neuron layer of the composite has been compiled, its
\* input is its from_layer's output, and that output is defined (a layer
\* output of the current graph) when from_layer is one of the composite's
\* neuron layers.
C7_ConnectionsAroundLayers ==
    /\ \A k \in LogIdx :
          /\ log[k].ev = "node" =>
                ~ \E m \in 1..(k - 1) :
                     log[m].by = log[k].by /\ log[m].ev \in {"layer", "call"}
          /\ log[k].ev \in {"bind", "connection"} =>
                /\ Cardinality({m \in 1..(k - 1) :
                       log[m].by = log[k].by /\ log[m].ev = "layer"})
                      = Len(neuron_layers[log[k].by])
                /\ \E m \in 1..(k - 1) :
                      /\ log[m].ev = "node"
                      /\ log[m].by = log[k].by
                      /\ log[m].obj = log[k].obj
          /\ log[k].ev = "bind" =>
                /\ log[k].sig = output[from_layer(log[k].obj)]
                /\ cin[log[k].obj] = log[k].sig
                /\ from_layer(log[k].obj) \in Range(neuron_layers[log[k].by])
                      => (log[k].sig.k = "y" /\ log[k].sig.g = graph)
          /\ log[k].ev = "connection" =>
                /\ k > 1
                /\ log[k - 1].ev = "bind"
                /\ log[k - 1].obj = log[k].obj
                /\ ccompiled[log[k].obj]
    /\ \A f \in Frames :
          f.pc = "conns" =>
             \A l \in Range(neuron_layers[f.self]) :
                output[l].k = "y" /\ output[l].g = graph

\* The chain A -> ab -> B, compiled: ab was bound to A's output.
C7_Witness ==
    /\ neuron_layers["top"] = <<"A", "B">>
    /\ stack = << >>
    /\ \E k \in LogIdx :
          /\ log[k].ev = "bind"
          /\ log[k].obj = "ab"
          /\ log[k].sig = [k |-> "y", of |-> "A", g |-> graph]

\* C8: when a neuron layer is compiled (for a nested composite: when its
\* compile is entered), add_input has handed it exactly its due inputs:
\* the composite's input first if it is the first neuron layer, then the
\* outputs of the connections into it, once each, in the order they were
\* added; and add_input is not called on it afterwards.  In the first
\* compile the layer's accumulated inputs are exactly those.
C8_InputsCompleteAtCompile ==
    /\ \A k \in LogIdx :
          log[k].ev \in {"layer", "call"} =>
             /\ SigsTo(log[k].obj, k) = DueInputs(log[k].by, log[k].obj)
             /\ \A m \in (k + 1)..Len(log) :
                   ~ (log[m].ev = "add_input" /\ log[m].obj = log[k].obj)
    /\ \A f \in Frames :
          (f.pc = "layers" /\ graph = 1) =>
             inputs[neuron_layers[f.self][f.i]]
                = DueInputs(f.self, neuron_layers[f.self][f.i])

\* B is the first neuron layer and is fed by two connections: it has been
\* compiled with the model input and both connection outputs.
C8_Witness ==
    /\ neuron_layers["top"] = <<"B", "K">>
    /\ connections["top"] = <<"kb", "ab">>
    /\ Len(inputs["B"]) = 3
    /\ \E k \in LogIdx : log[k].ev = "layer" /\ log[k].obj = "B"

\* C9: in one compile of a composite, its own input is handed to a neuron
\* layer at most once, namely to the first of the sequence, and exactly
\* once by the time any neuron layer is compiled; whatever any other
\* neuron layer is handed is a connection output.
C9_InputOnlyToFirstLayer ==
    \A c \in Composites :
       LET own == {k \in LogIdx : /\ log[k].ev = "add_input"
                                  /\ log[k].by = c
                                  /\ log[k].sig.k # "out"}
       IN  /\ Cardinality(own) <= 1
           /\ \A k \in own :
                 /\ log[k].obj = neuron_layers[c][1]
                 /\ log[k].sig = CompositeInput(c)
           /\ (\E k \in LogIdx : log[k].by = c
                                 /\ log[k].ev \in {"layer", "call"})
                 => Cardinality(own) = 1
           /\ \A k \in LogIdx :
                 (/\ log[k].ev = "add_input"
                  /\ log[k].by = c
                  /\ log[k].obj # neuron_layers[c][1])
                 => (log[k].sig.k = "out" /\ log[k].sig.of \in Conns)
           /\ graph = 1 =>
                 \A i \in 2..Len(neuron_layers[c]) :
                    \A p \in 1..Len(inputs[neuron_layers[c][i]]) :
                       inputs[neuron_layers[c][i]][p].k = "out"

\* A model of two neuron layers with a connection into the second, all
\* compiled.
C9_Witness ==
    /\ neuron_layers["top"] = <<"A", "B">>
    /\ inputs["A"] = <<[k |-> "in", of |-> "top", g |-> 1]>>
    /\ inputs["B"] = <<[k |-> "out", of |-> "ab", g |-> 1]>>
    /\ output["B"] # NoSig

\* C10: once _compile of a composite has set its output, that output is
\* the output of the last neuron layer of its sequence (a defined layer
\* output of the current graph), whatever the connections, and the inputs
\* of its first neuron layer include the composite's input.
C10_OutputIsLastLayer ==
    \A k \in LogIdx :
       log[k].ev = "output" =>
          LET c == log[k].by
              n == Len(neuron_layers[c])
          IN  /\ n >= 1
              /\ output[c] = output[neuron_layers[c][n]]
              /\ log[k].sig = output[c]
              /\ output[c].k = "y"
              /\ output[c].g = graph
              /\ \E p \in 1..Len(inputs[neuron_layers[c][1]]) :
                    inputs[neuron_layers[c][1]][p] = CompositeInput(c)

\* Compiled with a connection out of the last neuron layer (A) into the
\* first (B): the model's output is A's.
C10_Witness ==
    /\ neuron_layers["top"] = <<"B", "A">>
    /\ connections["top"] = <<"ab">>
    /\ stack = << >>
    /\ err = NoErr
    /\ output["top"] = [k |-> "y", of |-> "A", g |-> graph]

(* ================================================================== *)
(* Properties of the run loop (checked under RunSpec)                  *)
(* ================================================================== *)
RIdx == 1..Len(rlog)

\* The step indices of the events of kind e, in the order they happened.
Ks(e) ==
    LET sel == SelectSeq(rlog, LAMBDA x : x.ev = e)
    IN  [p \in 1..Len(sel) |-> sel[p].k]

Count(e) == Len(Ks(e))

UpTo(n) == [q \in 1..n |-> q - 1]

\* C1: in a run, frame k is pulled only after the callback of frame k-1
\* has returned (frame 0: after the variables were initialised); the
\* evaluation of frame k follows its pull and is complete when the
\* callback of frame k is entered; the callback is entered once per
\* evaluated frame, with indices 0, 1, 2, ... and the frames in source
\* order, and inside the callback of step k the results are those of the
\* evaluation of frame k.
C1_StepOrder ==
    /\ \A p \in RIdx :
          /\ rlog[p].ev = "pull" =>
                /\ p > 1
                /\ IF rlog[p].k = 0
                   THEN rlog[p - 1].ev = "init"
                   ELSE /\ rlog[p - 1].ev = "returned"
                        /\ rlog[p - 1].k = rlog[p].k - 1
          /\ rlog[p].ev = "eval" =>
                /\ p > 1
                /\ rlog[p - 1].ev = "pull"
                /\ rlog[p - 1].k = rlog[p].k
                /\ rlog[p - 1].fr = rlog[p].fr
          /\ rlog[p].ev = "callback" =>
                /\ p > 1
                /\ rlog[p - 1].ev = "eval"
                /\ rlog[p - 1].k = rlog[p].k
                /\ rlog[p - 1].fr = rlog[p].fr
                /\ rlog[p].k + 1 \in 1..Len(source)
                /\ rlog[p].fr = source[rlog[p].k + 1]
          /\ rlog[p].ev = "returned" =>
                /\ p > 1
                /\ rlog[p - 1].ev = "callback"
                /\ rlog[p - 1].k = rlog[p].k
    /\ Ks("callback") = UpTo(Count("callback"))
    /\ Count("callback") = Count("eval")
    /\ Count("pull") - Count("callback") \in {0, 1}
    /\ rpc = "callback" =>
          /\ rlog[Len(rlog)].ev = "callback"
          /\ rlog[Len(rlog)].k = step
          /\ feed.fr = frame
          /\ \A n \in DOMAIN results : results[n].at = step

\* run_time is pulling its second frame: the first callback has returned.
C1_Witness ==
    /\ mode = "run_time"
    /\ rpc = "eval"
    /\ step = 1
    /\ Count("returned") = 1

\* C2: when no run is in progress no session is open, whichever way the
\* run ended, and the last thing a run did was to release the session it
\* acquired; while a run is in progress exactly its own session is open.
C2_SessionAlwaysReleased ==
    /\ rpc = "idle" =>
          /\ sess = 0
          /\ \A n \in 1..Len(sessions) : ~ sessions[n].open
          /\ rerr # "none" =>
                /\ rerr \in {"returned", "raised:source", "raised:eval",
                             "raised:callback"}
                /\ rlog[1].ev = "acquire"
                /\ rlog[Len(rlog)].ev = "release"
                /\ rlog[Len(rlog)].k = rlog[1].k
    /\ rpc # "idle" =>
          /\ sess = Len(sessions)
          /\ \A n \in 1..Len(sessions) : sessions[n].open <=> n = sess

\* continue_run_time, second run of the model, ended by the callback's
\* exception.
C2_Witness ==
    /\ rpc = "idle"
    /\ mode = "continue_run_time"
    /\ rerr = "raised:callback"
    /\ Len(sessions) = 2

\* C3: a pulled frame is either evaluated or the run ends there with the
\* evaluation's exception; an entered callback either returns or the run
\* ends there with the callback's exception; nothing happens in a run
\* after its session is released.  So after a failure at step k the
\* source has yielded k+1 frames and no more, a failed evaluation has no
\* callback, and no step is evaluated twice.
C3_FailedStepAbortsRun ==
    /\ \A p \in RIdx :
          /\ rlog[p].ev = "release" =>
                /\ p = Len(rlog)
                /\ rpc = "idle"
                /\ rerr = rlog[p].how
          /\ (rlog[p].ev = "pull" /\ p < Len(rlog)) =>
                \/ rlog[p + 1].ev = "eval"
                \/ (rlog[p + 1].ev = "release"
                    /\ rlog[p + 1].how = "raised:eval")
          /\ (rlog[p].ev = "callback" /\ p < Len(rlog)) =>
                \/ rlog[p + 1].ev = "returned"
                \/ (rlog[p + 1].ev = "release"
                    /\ rlog[p + 1].how = "raised:callback")
    /\ Ks("eval") = UpTo(Count("eval"))
    /\ rpc = "eval" => rlog[Len(rlog)].ev = "pull"
    /\ rerr = "raised:callback" =>
          /\ rpc = "idle"
          /\ rlog[Len(rlog) - 1].ev = "callback"
          /\ rlog[Len(rlog) - 1].k = step
          /\ Count("pull") = step + 1
          /\ Count("callback") = step + 1
          /\ Len(data) = Len(source) - (step + 1)
    /\ rerr = "raised:eval" =>
          /\ rpc = "idle"
          /\ rlog[Len(rlog) - 1].ev = "pull"
          /\ rlog[Len(rlog) - 1].k = step
          /\ Count("pull") = step + 1
          /\ Count("eval") = step
          /\ Count("callback") = step
          /\ Len(data) = Len(source) - (step + 1)

\* run_time ended by the exception of the first callback, with a frame
\* left in the source.
C3_Witness ==
    /\ mode = "run_time"
    /\ rerr = "raised:callback"
    /\ step = 0
    /\ Len(data) = 1

\* C4 (as amended): run_time takes the frames of its source front to
\* back, each once; its callback indices are 0, 1, 2, ... from 0 in every
\* run; it takes at most 4 n + 3 steps; and when it returns (which it does
\* unless the callback, an evaluation or the source raises) the source of
\* n frames is exhausted and exactly n callbacks were made.
C4_ConsumesSourceOnce ==
    mode = "run_time" =>
       /\ \A p \in RIdx :
             rlog[p].ev = "pull" =>
                /\ rlog[p].k + 1 \in 1..Len(source)
                /\ rlog[p].fr = source[rlog[p].k + 1]
       /\ Ks("pull") = UpTo(Count("pull"))
       /\ data = SubSeq(source, Count("pull") + 1, Len(source))
       /\ Ks("callback") = UpTo(Count("callback"))
       /\ Len(rlog) <= 4 * Len(source) + 3
       /\ rpc # "idle" => ENABLED RunStep
       /\ (rpc = "idle" /\ rerr \notin {"raised:callback", "raised:eval",
                                        "raised:source"}) =>
             /\ rerr = "returned"
             /\ data = << >>
             /\ Count("callback") = Len(source)
             /\ rlog[Len(rlog)].ev = "release"

\* C4 as claimed: whenever the callback did not raise (and the source did
\* not), run_time ends with the source exhausted and n callbacks made.
C4_Original ==
    (mode = "run_time" /\ rpc = "idle"
        /\ rerr \notin {"raised:callback", "raised:source"}) =>
       /\ data = << >>
       /\ Ks("callback") = UpTo(Len(source))

\* The second run of the model, a run_time over two frames, has returned.
C4_Witness ==
    /\ mode = "run_time"
    /\ rpc = "idle"
    /\ rerr = "returned"
    /\ Len(source) = 2
    /\ Len(sessions) = 2

(* ================================================================== *)
(* Properties of the model's life cycle                                *)
(* ================================================================== *)

\* C11: a layer's output is undefined before compile and, once compile
\* has defined it, never changes: no step of the program replaces the
\* output handle of the model or of a neuron layer that has one (checked
\* under Spec, where compile() may be called again).
C11_OutputImmutableOnceSet ==
    [][\A l \in NLayers \cup {"top"} :
          output[l] # NoSig => output'[l] = output[l]]_vars

\* C12: the compiled graph is reused unmodified by every run: no step of
\* run_time, continue_run_time or learn (from the start of a run to its
\* return or raise) changes the model's graph handle, its input
\* placeholder, its neuron-layer, connection or learning-rule sequences, or
\* any compiled output or connection handle; and every session is created
\* on the graph compile() built.
C12_RunsReuseTheGraph ==
    [][(rpc # "idle" \/ rpc' # "idle") =>
          /\ graph' = graph
          /\ input' = input
          /\ neuron_layers' = neuron_layers
          /\ connections' = connections
          /\ learning_rules' = learning_rules
          /\ output' = output
          /\ cout' = cout
          /\ cin' = cin
          /\ stack' = << >>
          /\ \A k \in 1..Len(sessions') : sessions'[k].graph = graph]_vars

\* The second run of the compiled model is inside a callback in which
\* learn has been called.
C12_Witness ==
    /\ graph = 1
    /\ Len(sessions) = 2
    /\ rpc = "callback"
    /\ sessions[2].vars = "learned"
    /\ ~sessions[1].open

\* The neuron layers, connections and learning rules registered on the
\* model.
Registered ==
    Range(neuron_layers["top"]) \cup Range(connections["top"])
        \cup Range(learning_rules["top"])

\* C13: inside every callback, the results mapping has, for every neuron
\* layer, connection and learning rule registered on the model, an entry
\* under that entity's name that holds that entity's own value for the
\* step, also when entities of different kinds carry the same name.
C13_ResultsHaveEveryEntity ==
    rpc = "callback" =>
       \A e \in Registered :
          /\ name(e) \in DOMAIN results
          /\ results[name(e)].of = e
          /\ results[name(e)].at = step

\* C14: what learn(session) returns has exactly the names of the model's
\* learning rules as its keys (none for a model without rules, two for a
\* model with two), and under each name the result of the rule of that
\* name; nothing of a neuron layer or a connection is in it.
C14_LearnReturnsRuleNames ==
    (rpc = "callback" /\ sessions[sess].vars = "learned") =>
       /\ DOMAIN learned =
             {name(learning_rules["top"][k]) :
                 k \in 1..Len(learning_rules["top"])}
       /\ \A k \in 1..Len(learning_rules["top"]) :
             learned[name(learning_rules["top"][k])] = learning_rules["top"][k]

\* learn has been called on a model with two learning rules and a
\* neuron layer.
C14_Witness ==
    /\ rpc = "callback"
    /\ sessions[sess].vars = "learned"
    /\ Len(learning_rules["top"]) = 2
    /\ neuron_layers["top"] # << >>
    /\ DOMAIN learned = {"r1", "A"}

\* learn has been called on a model without learning rules.
C14_WitnessNoRules ==
    /\ rpc = "callback"
    /\ sessions[sess].vars = "learned"
    /\ learning_rules["top"] = << >>

\* C15: in run_time, a frame that is a full feed mapping is the whole
\* feed of its step's evaluation, as it is, and any other frame is fed as
\* the value of the model's input placeholder; the choice is made frame by
\* frame, whatever the other frames of the source are.
C15_MappingFrameFedVerbatim ==
    mode = "run_time" =>
       /\ \A p \in RIdx :
             rlog[p].ev = "eval" =>
                /\ rlog[p].fr.kind = "map" => rlog[p].how = "verbatim"
                /\ rlog[p].fr.kind = "raw" => rlog[p].how = "placeholder"
       /\ rpc = "callback" =>
             /\ feed.fr = frame
             /\ frame.kind = "map" => feed.how = "verbatim"
             /\ frame.kind = "raw" => feed.how = "placeholder"

\* run_time has evaluated a raw frame and then a full feed mapping.
C15_Witness ==
    /\ mode = "run_time"
    /\ rpc = "callback"
    /\ step = 1
    /\ source[1].kind = "raw"
    /\ frame.kind = "map"
    /\ feed.how = "verbatim"

(* ================================================================== *)
(* Further properties of the compile pass                              *)
(* ================================================================== *)

\* The objects of the events of kind e that composite c logged, in order.
ObjsOf(e, c) ==
    LET sel == SelectSeq(log, LAMBDA x : x.ev = e /\ x.by = c)
    IN  [p \in 1..Len(sel) |-> sel[p].obj]

\* C16: in _compile, a learning rule of a composite is compiled only after
\* every neuron layer and every connection of that composite has been
\* compiled, and before the composite's output is set; the rules are
\* compiled in the order they were added, each exactly once per compile.
C16_RulesAfterLayersAndConnections ==
    /\ \A p \in LogIdx :
          log[p].ev = "rule" =>
             LET c == log[p].by
             IN  /\ \A l \in Range(neuron_layers[c]) :
                       \E q \in 1..(p - 1) :
                          /\ log[q].ev = "layer"
                          /\ log[q].by = c
                          /\ log[q].obj = l
                 /\ \A x \in Range(connections[c]) :
                       \E q \in 1..(p - 1) :
                          /\ log[q].ev = "connection"
                          /\ log[q].by = c
                          /\ log[q].obj = x
                 /\ \A q \in 1..(p - 1) :
                       ~(log[q].ev = "output" /\ log[q].by = c)
                 /\ rcompiled[log[p].obj]
    /\ \A c \in Composites :
          /\ Len(ObjsOf("rule", c)) <= Len(learning_rules[c])
          /\ ObjsOf("rule", c) =
                SubSeq(learning_rules[c], 1, Len(ObjsOf("rule", c)))
          /\ ObjsOf("output", c) # << >> =>
                ObjsOf("rule", c) = learning_rules[c]

\* The compile of a model with two neuron layers, a connection and two
\* learning rules has completed.
C16_Witness ==
    /\ Len(neuron_layers["top"]) = 2
    /\ Len(connections["top"]) = 1
    /\ learning_rules["top"] = <<"r2", "r1">>
    /\ output["top"] # NoSig
    /\ ObjsOf("rule", "top") = <<"r2", "r1">>

(* ================================================================== *)
(* Further properties of the run loop (checked under RunSpec)          *)
(* ================================================================== *)

\* The event a run on session sid over source src logs at position p > 2
\* when its frames go to the input placeholder: pull, evaluation, callback
\* and return of step (p - 3) \div 4. Nothing in it depends on which of
\* the two loops runs.
LoopEvent(src, p) ==
    LET k == (p - 3) \div 4
        r == (p - 3) % 4
        e == IF r = 0 THEN "pull"
             ELSE IF r = 1 THEN "eval"
             ELSE IF r = 2 THEN "callback" ELSE "returned"
    IN  [ev |-> e, k |-> k,
         how |-> IF r = 1 THEN "placeholder" ELSE "-",
         fr |-> src[k + 1]]

C18_FreshSessionEveryRun ==
    rpc # "idle" =>
       /\ sess = Len(sessions)
       /\ rlog[1].ev = "acquire"
       /\ rlog[1].k = sess
       /\ \A k \in 1..Len(sessions) : sessions[k].open <=> k = sess
       /\ rpc = "init" => sessions[sess].vars = "uninit"
       /\ rpc # "init" =>
             /\ Len(rlog) >= 2
             /\ rlog[2].ev = "init"
             /\ rlog[2].k = sess
             /\ sessions[sess].vars \in {"init", "learned"}
       /\ (rpc \in {"pull", "eval"} /\ step = 0) =>
             sessions[sess].vars = "init"
       /\ \A p \in RIdx : rlog[p].ev = "pull" => p > 2

\* A continue_run_time that follows a run in which learn was called is
\* about to evaluate its first frame.
C18_Witness ==
    /\ mode = "continue_run_time"
    /\ Len(sessions) = 2
    /\ sessions[1].vars = "learned"
    /\ rpc = "eval"
    /\ step = 0

\* C19: learn(session), called inside the callback of step k, creates no
\* session and closes none: it works on the session of the run, which
\* stays open; it leaves the loop's index, the frame and what the data
\* source has still to yield as they are, so that the loop goes on with
\* frame k+1 on the same session.
C19_LearnKeepsSessionAndLoop ==
    [][(rpc = "callback" /\ rpc' = "callback") =>
          /\ Len(sessions') = Len(sessions)
          /\ sess' = sess
          /\ sessions'[sess].open
          /\ sessions'[sess].graph = sessions[sess].graph
          /\ \A k \in 1..Len(sessions) :
                k # sess => sessions'[k] = sessions[k]
          /\ step' = step
          /\ frame' = frame
          /\ data' = data
          /\ data' = SubSeq(source, step + 2, Len(source))
          /\ results' = results
          /\ rlog' = rlog
          /\ rerr' = rerr]_vars

\* After a learn in the callback of step 0, the loop is evaluating frame
\* 1 on the same, still open, session.
C19_Witness ==
    /\ rpc = "eval"
    /\ step = 1
    /\ sessions[sess].vars = "learned"
    /\ sessions[sess].open
    /\ frame = source[2]

(* ================================================================== *)
(* The nested composite (checked under Spec)                           *)
(* ================================================================== *)

\* Where an event stands in the order of one _compile pass.
Rank(e) ==
    IF e = "node" THEN 0
    ELSE IF e = "add_input" THEN 1
    ELSE IF e \in {"layer", "call"} THEN 2
    ELSE IF e = "barrier" THEN 3
    ELSE IF e \in {"bind", "connection"} THEN 4
    ELSE IF e = "rule" THEN 5
    ELSE 6

\* C20: the compile of the nested composite K is one step of the
\* neuron-layer pass of the model that holds it. Everything K does comes
\* in one run of events right after the model's call, which the model
\* makes only after it has delivered all of K's inputs; in that run K
\* compiles its inner neuron layers, then its connections, then its
\* learning rules, then sets its output, and the model's pass goes on
\* only then; no connection or learning rule of the model is bound or
\* compiled before. A connection of the model whose to_layer is an inner
\* layer of K fails the lookup.
C20_NestedCompileIsOneLayerStep ==
    /\ \A p \in LogIdx :
          /\ log[p].by = "K" =>
                \E q \in 1..(p - 1) :
                   /\ log[q] = [ev |-> "call", by |-> "top", obj |-> "K",
                                sig |-> NoSig]
                   /\ \A r \in (q + 1)..p : log[r].by = "K"
                   /\ \A r \in (q + 1)..(p - 1) :
                         Rank(log[r].ev) <= Rank(log[p].ev)
          /\ (log[p].ev = "call" /\ log[p].obj = "K") =>
                /\ SigsTo("K", p) = DueInputs("top", "K")
                /\ \A r \in (p + 1)..Len(log) :
                      ~(log[r].ev = "add_input" /\ log[r].by = "top")
          /\ (log[p].ev = "layer" /\ log[p].by = "top"
                 /\ log[p].obj = "K") =>
                /\ p > 1
                /\ log[p - 1].ev = "output"
                /\ log[p - 1].by = "K"
                /\ log[p - 1].sig = output["K"]
                /\ output["K"] =
                      output[neuron_layers["K"][Len(neuron_layers["K"])]]
                /\ ObjsOf("layer", "K") = neuron_layers["K"]
                /\ ObjsOf("connection", "K") = connections["K"]
                /\ ObjsOf("rule", "K") = learning_rules["K"]
          /\ (log[p].by = "top" /\ Rank(log[p].ev) >= 3
                 /\ "K" \in Range(neuron_layers["top"])) =>
                \E q \in 1..(p - 1) :
                   /\ log[q].ev = "layer"
                   /\ log[q].by = "top"
                   /\ log[q].obj = "K"
          /\ (log[p].ev = "node" /\ log[p].by = "top"
                 /\ to_layer(log[p].obj) \notin Range(neuron_layers["top"])) =>
                /\ p = Len(log)
                /\ stack = << >>
                /\ err = [kind |-> LookupError, by |-> "top"]
    /\ \A f \in Frames :
          f.self = "K" =>
             /\ Len(stack) = 2
             /\ stack[1].self = "top"
             /\ stack[1].pc = "layers"
             /\ neuron_layers["top"][stack[1].i] = "K"

\* The model A, K with the connection A -> K has been compiled; K holds
\* two inner neuron layers, a connection and a learning rule.
C20_Witness ==
    /\ neuron_layers["top"] = <<"A", "K">>
    /\ connections["top"] = <<"ak">>
    /\ neuron_layers["K"] = <<"P", "Q">>
    /\ output["top"] # NoSig
    /\ output["top"] = output["Q"]
    /\ stack = << >>

\* The model holds K, whose inner layer P is the to_layer of the model's
\* connection ap: the compile has failed the lookup.
C20_WitnessInnerTarget ==
    /\ "K" \in Range(neuron_layers["top"])
    /\ "P" \in Range(neuron_layers["K"])
    /\ "ap" \in Range(connections["top"])
    /\ err = [kind |-> LookupError, by |-> "top"]

====
